---- MODULE Spec2Model ----
(***************************************************************************)
(* Model of the Ruby-to-C# transpiler pipeline of convert_ruby.py:         *)
(* tokenize_ruby_code (regex lexer), parse_tokens (stack-based block       *)
(* parser) and transpile_to_csharp (recursive renderer), driven by         *)
(* transpile_ruby_to_csharp.  Text, tokens and output are strings; a       *)
(* string is handled as the sequence of its one-character substrings.      *)
(***************************************************************************)
EXTENDS Integers, Sequences, FiniteSets, TLC

VARIABLES input_file, ruby_code, tokens, i, stack, ast, j, csharp_code,
          output_file, pc, error,
          calls,      \* the number of the current invocation of the pipeline
          returned    \* history: what parse_tokens returned, per invocation

vars == <<input_file, ruby_code, tokens, i, stack, ast, j, csharp_code,
          output_file, pc, error, calls, returned>>

(***************************************************************************)
(* Bounds of the explored inputs.                                          *)
(***************************************************************************)
MaxChars == 4
MaxWords == 4
MaxCalls == 3

(***************************************************************************)
(* Characters.                                                             *)
(***************************************************************************)
Letters ==
    {"a","b","c","d","e","f","g","h","i","j","k","l","m",
     "n","o","p","q","r","s","t","u","v","w","x","y","z",
     "A","B","C","D","E","F","G","H","I","J","K","L","M",
     "N","O","P","Q","R","S","T","U","V","W","X","Y","Z"}

Digits == {"0","1","2","3","4","5","6","7","8","9"}

Whitespace == {" ", "\t", "\n", "\r", "\f"}

CharAt(s, p) == SubSeq(s, p, p)

(***************************************************************************)
(* The keyword table.                                                      *)
(***************************************************************************)
RUBY_TO_CSHARP_KEYWORDS ==
    [k \in {"def", "class", "end", "if", "elsif", "else", "while", "do",
            "true", "false", "nil"} |->
        CASE k = "def"   -> "public void"
          [] k = "class" -> "public class"
          [] k = "end"   -> "}"
          [] k = "if"    -> "if"
          [] k = "elsif" -> "else if"
          [] k = "else"  -> "else"
          [] k = "while" -> "while"
          [] k = "do"    -> "{"
          [] k = "true"  -> "true"
          [] k = "false" -> "false"
          [] k = "nil"   -> "null"]

(***************************************************************************)
(* tokenize_ruby_code: re.findall(r"[A-Za-z_][A-Za-z0-9_]*|\S", code).     *)
(* At each position the first alternative is tried first and is greedy;    *)
(* the second alternative takes one non-whitespace character; a position   *)
(* where neither matches is skipped.                                       *)
(***************************************************************************)
IdentStartDigits(c) == c \in Letters \cup Digits \cup {"_"}

IdentStart(c) == c \in Letters \cup {"_"}

IdentChar(c) == c \in Letters \cup Digits \cup {"_"}

NonSpaceNoDigit(c) == c \notin Whitespace \cup Digits

NonSpace(c) == c \notin Whitespace

RECURSIVE IdentEnd(_, _)
IdentEnd(code, p) ==
    IF p < Len(code) /\ IdentChar(CharAt(code, p + 1))
    THEN IdentEnd(code, p + 1)
    ELSE p

\* length of the match at position p, 0 when the pattern does not match there
MatchLen(code, p) ==
    IF IdentStart(CharAt(code, p)) THEN IdentEnd(code, p) - p + 1
    ELSE IF NonSpace(CharAt(code, p)) THEN 1
    ELSE 0

RECURSIVE findall(_, _)
findall(code, p) ==
    IF p > Len(code) THEN <<>>
    ELSE LET m == MatchLen(code, p)
         IN  IF m = 0 THEN findall(code, p + 1)
             ELSE <<SubSeq(code, p, p + m - 1)>> \o findall(code, p + m)

tokenize_ruby_code(code) == findall(code, 1)

(***************************************************************************)
(* parse_tokens: one loop iteration per token over the locals stack, ast.  *)
(* A parser state is [stack, ast, err]; err is the exception raised.       *)
(***************************************************************************)
BlockOpeners == {"class", "def", "if", "while", "else", "elsif", "do"}

code_node(token) == [type |-> "code", value |-> token]

kept_local(previous) == previous

\* ast = [] / stack = []: a new list in every call, whatever an earlier call
\* left in its own
new_local(previous) == <<>>

open_block_skip_else(token, st) ==
    IF token = "else" THEN st
    ELSE [st EXCEPT !.stack = Append(@, [type |-> token, body |-> <<>>])]

\* stack.append({"type": token, "body": []})
open_block(token, st) ==
    [st EXCEPT !.stack = Append(@, [type |-> token, body |-> <<>>])]

append_to_top_front(stk, node) ==
    [stk EXCEPT ![Len(stk)].body = <<node>> \o @]

\* stack[-1]["body"].append(node)
append_to_top(stk, node) ==
    [stk EXCEPT ![Len(stk)].body = Append(@, node)]

close_block_lenient(st) ==
    IF st.stack = <<>> THEN st
    ELSE LET node == st.stack[Len(st.stack)]
             rest == SubSeq(st.stack, 1, Len(st.stack) - 1)
         IN  IF rest # <<>>
             THEN [st EXCEPT !.stack = append_to_top(rest, node)]
             ELSE [st EXCEPT !.stack = rest, !.ast = Append(@, node)]

close_block_peek(st) ==
    IF st.stack = <<>> THEN [st EXCEPT !.err = "IndexError"]
    ELSE LET node == st.stack[Len(st.stack)]
             rest == SubSeq(st.stack, 1, Len(st.stack) - 1)
         IN  IF rest # <<>>
             THEN [st EXCEPT !.stack = Append(append_to_top(rest, node), node)]
             ELSE [st EXCEPT !.ast = Append(@, node)]

close_block_twice(st) ==
    IF st.stack = <<>> THEN [st EXCEPT !.err = "IndexError"]
    ELSE LET node == st.stack[Len(st.stack)]
             rest == SubSeq(st.stack, 1, Len(st.stack) - 1)
         IN  IF rest # <<>>
             THEN [st EXCEPT !.stack = append_to_top(append_to_top(rest, node), node)]
             ELSE [st EXCEPT !.stack = rest, !.ast = Append(Append(@, node), node)]

close_block_flat(st) ==
    IF st.stack = <<>> THEN [st EXCEPT !.err = "IndexError"]
    ELSE LET node == st.stack[Len(st.stack)]
             rest == SubSeq(st.stack, 1, Len(st.stack) - 1)
         IN  [st EXCEPT !.stack = rest, !.ast = Append(@, node)]

\* node = stack.pop(); attach to the new top, or to ast when the stack is empty
close_block(st) ==
    IF st.stack = <<>> THEN [st EXCEPT !.err = "IndexError"]
    ELSE LET node == st.stack[Len(st.stack)]
             rest == SubSeq(st.stack, 1, Len(st.stack) - 1)
         IN  IF rest # <<>>
             THEN [st EXCEPT !.stack = append_to_top(rest, node)]
             ELSE [st EXCEPT !.stack = rest, !.ast = Append(@, node)]

append_code_top_level(token, st) ==
    [st EXCEPT !.ast = Append(@, code_node(token))]

\* a token that is neither a block opener nor "end"
append_code(token, st) ==
    IF st.stack # <<>>
    THEN [st EXCEPT !.stack = append_to_top(@, code_node(token))]
    ELSE [st EXCEPT !.ast = Append(@, code_node(token))]

parse_token(token, st) ==
    IF token \in BlockOpeners THEN open_block(token, st)
    ELSE IF token = "end" THEN close_block(st)
    ELSE append_code(token, st)

parse_return_flush(stk, forest) == forest \o stk

\* return ast
parse_return(stk, forest) == forest

(***************************************************************************)
(* transpile_to_csharp.  transpile_node(node, code) is the effect of one   *)
(* call on the accumulator csharp_code: [code, err], where err names the   *)
(* exception that ended the call ("" when it returned).                    *)
(***************************************************************************)
Ok(code) == [code |-> code, err |-> ""]

Swallow(code, e) == [code |-> code, err |-> ""]

\* an exception e leaves the call; code is csharp_code at that moment
Raise(code, e) == [code |-> code, err |-> e]

\* node["body"][0]["value"]: "" when the subscripts succeed
FirstValueError(node) ==
    IF node.body = <<>> THEN "IndexError"
    ELSE IF node.body[1].type # "code" THEN "KeyError"
    ELSE ""

code_line8(value) == "        " \o value \o "\n"

code_line_bare(value) == value \o "\n"

\* csharp_code += f"    {node['value']}\n"
code_line(value) == "    " \o value \o "\n"

no_rule_reset(node, code) == Ok("")

no_rule_else(node, code) ==
    IF node.type = "else" THEN Ok(code \o "    else {\n    }\n") ELSE Ok(code)

\* a node type none of the if/elif tests matches: the call returns
no_rule(node, code) == Ok(code)

rest_of_body_all(body) == body

\* node["body"][1:]
rest_of_body(body) == Tail(body)

block_close_deep(type) == IF type = "class" THEN "}\n" ELSE "        }\n"

\* the closing line of a block
block_close(type) == IF type = "class" THEN "}\n" ELSE "    }\n"

RECURSIVE transpile_node(_, _), transpile_children(_, _)

\* for child in children: transpile_node(child), stopping at an exception
transpile_children(children, r) ==
    IF children = <<>> \/ r.err # "" THEN r
    ELSE transpile_children(Tail(children),
                            transpile_node(Head(children), r.code))

transpile_node(node, code) ==
    IF node.type = "class" THEN
        IF FirstValueError(node) # "" THEN Raise(code, FirstValueError(node))
        ELSE LET head == code \o RUBY_TO_CSHARP_KEYWORDS["class"] \o " "
                           \o node.body[1].value \o " {\n"
                 r == transpile_children(rest_of_body(node.body), Ok(head))
             IN  IF r.err # "" THEN r
                 ELSE Ok(r.code \o block_close(node.type))
    ELSE IF node.type = "def" THEN
        IF FirstValueError(node) # "" THEN Raise(code, FirstValueError(node))
        ELSE LET head == code \o "    " \o RUBY_TO_CSHARP_KEYWORDS["def"] \o " "
                           \o node.body[1].value \o "() {\n"
                 r == transpile_children(rest_of_body(node.body), Ok(head))
             IN  IF r.err # "" THEN r
                 ELSE Ok(r.code \o block_close(node.type))
    ELSE IF node.type \in {"if", "while"} THEN
        \* the keyword and "(" are appended before the condition is read
        LET open == code \o "    " \o RUBY_TO_CSHARP_KEYWORDS[node.type] \o " ("
        IN  IF FirstValueError(node) # "" THEN Raise(open, FirstValueError(node))
            ELSE LET head == open \o node.body[1].value \o ") {\n"
                     r == transpile_children(rest_of_body(node.body), Ok(head))
                 IN  IF r.err # "" THEN r
                     ELSE Ok(r.code \o block_close(node.type))
    ELSE IF node.type = "code" THEN Ok(code \o code_line(node.value))
    ELSE no_rule(node, code)

(***************************************************************************)
(* Input texts: every string of at most MaxChars characters over Alphabet, *)
(* every text of at most MaxWords words of Vocabulary separated by one     *)
(* space, and some longer programs.                                        *)
(***************************************************************************)
Alphabet == {"a", "1", "_", " ", "\n", "+"}

Vocabulary == {"class", "def", "if", "while", "else", "end", "x"}

RECURSIVE StringsUpTo(_)
StringsUpTo(n) ==
    IF n = 0 THEN {""}
    ELSE LET shorter == StringsUpTo(n - 1)
         IN  shorter \cup {s \o c : s \in shorter, c \in Alphabet}

RECURSIVE WordTextsOf(_)
WordTextsOf(n) ==
    IF n = 1 THEN Vocabulary
    ELSE {t \o " " \o w : t \in WordTextsOf(n - 1), w \in Vocabulary}

WordTexts == UNION {WordTextsOf(n) : n \in 1..MaxWords}

GreeterText == "class Greeter\ndef hello\nputs\nend\nend"

Programs ==
    {GreeterText,
     "class Foo def bar end end",
     "class Foo def bar",
     "x class Foo end y def bar z",
     "class A def m if c s end t end u end",
     "class A def m while c class B x end def n y end s end end end",
     "class A else def m x end end def n y end end",
     "if c do def m x end end end",
     "if c x elsif d y end else z end end",
     "elsif class end x end do if end end",
     "while c do x end end elsif y",
     "class A class B end end",
     "class A if end end",
     "if while x end end",
     "def m(a, b)\n  puts 12\nend"}

Inputs == StringsUpTo(MaxChars) \cup WordTexts \cup Programs

(***************************************************************************)
(* transpile_ruby_to_csharp: the pipeline.                                 *)
(***************************************************************************)
Init ==
    /\ input_file \in Inputs
    /\ ruby_code = ""
    /\ tokens = <<>>
    /\ i = 1
    /\ stack = <<>>
    /\ ast = <<>>
    /\ j = 1
    /\ csharp_code = ""
    /\ output_file = <<>>
    /\ pc = "read"
    /\ error = ""
    /\ calls = 1
    /\ returned = {}

\* ruby_code = read_ruby_code(input_file)
Read ==
    /\ pc = "read"
    /\ ruby_code' = input_file
    /\ pc' = "tokenize"
    /\ UNCHANGED <<input_file, tokens, i, stack, ast, j, csharp_code,
                   output_file, error, calls, returned>>

\* tokens = tokenize_ruby_code(ruby_code); parse_tokens starts
Tokenize ==
    /\ pc = "tokenize"
    /\ tokens' = tokenize_ruby_code(ruby_code)
    /\ i' = 1
    /\ stack' = new_local(stack)
    /\ ast' = new_local(ast)
    /\ pc' = "parse"
    /\ UNCHANGED <<input_file, ruby_code, j, csharp_code, output_file, error,
                   calls, returned>>

\* one iteration of "for token in tokens"
ParseStep ==
    /\ pc = "parse"
    /\ i <= Len(tokens)
    /\ LET st == parse_token(tokens[i],
                             [stack |-> stack, ast |-> ast, err |-> ""])
       IN  /\ stack' = st.stack
           /\ ast' = st.ast
           /\ IF st.err # ""
              THEN /\ pc' = "error"
                   /\ error' = st.err
                   /\ i' = i
              ELSE /\ pc' = "parse"
                   /\ error' = error
                   /\ i' = i + 1
    /\ UNCHANGED <<input_file, ruby_code, tokens, j, csharp_code, output_file,
                   calls, returned>>

\* the loop is over: return ast; transpile_to_csharp starts
ParseReturn ==
    /\ pc = "parse"
    /\ i > Len(tokens)
    /\ ast' = parse_return(stack, ast)
    /\ j' = 1
    /\ csharp_code' = ""
    /\ pc' = "transpile"
    /\ returned' = returned \cup {[call |-> calls, tokens |-> tokens,
                                   ast |-> parse_return(stack, ast)]}
    /\ UNCHANGED <<input_file, ruby_code, tokens, i, stack, output_file, error,
                   calls>>

\* one iteration of "for node in ast: transpile_node(node)"
TranspileStep ==
    /\ pc = "transpile"
    /\ j <= Len(ast)
    /\ LET r == transpile_node(ast[j], csharp_code)
       IN  /\ csharp_code' = r.code
           /\ IF r.err # ""
              THEN /\ pc' = "error"
                   /\ error' = r.err
                   /\ j' = j
              ELSE /\ pc' = "transpile"
                   /\ error' = error
                   /\ j' = j + 1
    /\ UNCHANGED <<input_file, ruby_code, tokens, i, stack, ast, output_file,
                   calls, returned>>

\* return csharp_code
TranspileReturn ==
    /\ pc = "transpile"
    /\ j > Len(ast)
    /\ pc' = "write"
    /\ UNCHANGED <<input_file, ruby_code, tokens, i, stack, ast, j,
                   csharp_code, output_file, error, calls, returned>>

\* write_csharp_code(output_file, csharp_code)
Write ==
    /\ pc = "write"
    /\ output_file' = <<csharp_code>>
    /\ pc' = "done"
    /\ UNCHANGED <<input_file, ruby_code, tokens, i, stack, ast, j,
                   csharp_code, error, calls, returned>>

Next ==
    \/ Read
    \/ Tokenize
    \/ ParseStep
    \/ ParseReturn
    \/ TranspileStep
    \/ TranspileReturn
    \/ Write

Spec == Init /\ [][Next]_vars

(***************************************************************************)
(* Successive invocations of the pipeline in one process.  A new call      *)
(* starts after the previous one has ended, normally or by an exception;   *)
(* what the previous call left in its locals is still in memory until the  *)
(* new call builds its own.                                                *)
(***************************************************************************)
CallInputs ==
    {"",
     "class Foo def bar end end",
     "class Foo def bar",
     "x class Foo end y def bar z",
     "x end class x",
     "if while x end end",
     "else class end end",
     "class A if c x end y end"}

InitCalls ==
    /\ input_file \in CallInputs
    /\ ruby_code = ""
    /\ tokens = <<>>
    /\ i = 1
    /\ stack = <<>>
    /\ ast = <<>>
    /\ j = 1
    /\ csharp_code = ""
    /\ output_file = <<>>
    /\ pc = "read"
    /\ error = ""
    /\ calls = 1
    /\ returned = {}

\* transpile_ruby_to_csharp is called again, on any input
NextCall ==
    /\ pc \in {"done", "error"}
    /\ calls < MaxCalls
    /\ calls' = calls + 1
    /\ input_file' \in CallInputs
    /\ pc' = "read"
    /\ error' = ""
    /\ UNCHANGED <<ruby_code, tokens, i, stack, ast, j, csharp_code,
                   output_file, returned>>

NextCalls ==
    \/ Read
    \/ Tokenize
    \/ ParseStep
    \/ ParseReturn
    \/ TranspileStep
    \/ TranspileReturn
    \/ Write
    \/ NextCall

SpecCalls == InitCalls /\ [][NextCalls]_vars

TypeOK ==
    /\ pc \in {"read", "tokenize", "parse", "transpile", "write", "done",
               "error"}
    /\ error \in {"", "IndexError", "KeyError"}
    /\ (pc = "error") = (error # "")
    /\ i \in 1..(Len(tokens) + 1)
    /\ pc \in {"transpile", "write", "done"} => j \in 1..(Len(ast) + 1)
    /\ Len(output_file) <= 1
    /\ calls \in 1..MaxCalls

(***************************************************************************)
(* Helpers of the properties.                                              *)
(***************************************************************************)
RECURSIVE Concat(_)
Concat(seq) == IF seq = <<>> THEN "" ELSE Head(seq) \o Concat(Tail(seq))

RECURSIVE RemoveWhitespace(_)
RemoveWhitespace(s) ==
    IF Len(s) = 0 THEN ""
    ELSE (IF CharAt(s, 1) \in Whitespace THEN "" ELSE CharAt(s, 1))
         \o RemoveWhitespace(SubSeq(s, 2, Len(s)))

RECURSIVE LineEnd(_, _)
LineEnd(s, p) ==
    IF p > Len(s) \/ CharAt(s, p) = "\n" THEN p ELSE LineEnd(s, p + 1)

\* the lines of s, without their terminating newline
RECURSIVE LinesFrom(_, _)
LinesFrom(s, p) ==
    IF p > Len(s) THEN <<>>
    ELSE <<SubSeq(s, p, LineEnd(s, p) - 1)>> \o LinesFrom(s, LineEnd(s, p) + 1)

Lines(s) == LinesFrom(s, 1)

RECURSIVE LeadingSpaces(_)
LeadingSpaces(line) ==
    IF Len(line) > 0 /\ CharAt(line, 1) = " "
    THEN 1 + LeadingSpaces(SubSeq(line, 2, Len(line)))
    ELSE 0

HasPrefix(s, pre) == Len(s) >= Len(pre) /\ SubSeq(s, 1, Len(pre)) = pre

Tokenized == pc \notin {"read", "tokenize"}

\* tokenize_ruby_code has just returned tokens (they never change afterwards)
TokensReturned == pc = "parse" /\ i = 1

ParseFailed == pc = "error" /\ i <= Len(tokens)

\* parse_tokens has returned its ast to the caller
ParseReturned ==
    \/ pc \in {"transpile", "write", "done"}
    \/ pc = "error" /\ i > Len(tokens)

\* transpile_to_csharp has returned csharp_code to the caller
TranspileReturned == pc \in {"write", "done"}

(***************************************************************************)
(* C1                                                                      *)
(***************************************************************************)
GreeterIndented ==
    <<"public class Greeter {",
      "    public void hello() {",
      "        puts",
      "    }",
      "}">>

GreeterFlat ==
    <<"public class Greeter {",
      "    public void hello() {",
      "    puts",
      "    }",
      "}">>

\* C1 as stated: the pipeline on the Greeter text never fails and returns
\* the five lines with the statement 'puts' indented 8 spaces.
C1_AsStated ==
    ruby_code = GreeterText =>
        /\ pc # "error"
        /\ TranspileReturned => Lines(csharp_code) = GreeterIndented

\* C1 (amended): the pipeline on the Greeter text never fails and returns
\* exactly five newline-terminated lines: the class header and the final
\* brace unindented, and the method header, the statement 'puts' and the
\* method's closing brace each indented 4 spaces.
C1_EndToEnd ==
    ruby_code = GreeterText =>
        /\ pc # "error"
        /\ TranspileReturned =>
              /\ Lines(csharp_code) = GreeterFlat
              /\ csharp_code = Concat([k \in 1..5 |-> GreeterFlat[k] \o "\n"])
        /\ pc = "done" => output_file = <<csharp_code>>

C1_Witness ==
    /\ pc = "done"
    /\ ruby_code = GreeterText
    /\ tokens = <<"class", "Greeter", "def", "hello", "puts", "end", "end">>
    /\ Len(ast) = 1

(***************************************************************************)
(* C2                                                                      *)
(***************************************************************************)
\* C2: the tokens returned by tokenize_ruby_code, concatenated in order,
\* are the input text with its whitespace characters removed, and no token
\* is empty.
C2_TokenReconstruction ==
    TokensReturned =>
        /\ Concat(tokens) = RemoveWhitespace(ruby_code)
        /\ \A k \in 1..Len(tokens) : Len(tokens[k]) > 0

C2_Witness ==
    /\ pc = "parse"
    /\ ruby_code = "def m(a, b)\n  puts 12\nend"
    /\ Len(tokens) = 11
    /\ Len(RemoveWhitespace(ruby_code)) < Len(ruby_code)

(***************************************************************************)
(* C3                                                                      *)
(***************************************************************************)
WordChar(c) == c \in Letters \cup Digits \cup {"_"}

\* position p lies in a run of word characters that holds a letter or an
\* underscore at or before p
RunHasLetterUpTo(code, p) ==
    \E q \in 1..p :
        /\ CharAt(code, q) \in Letters \cup {"_"}
        /\ \A r \in q..p : WordChar(CharAt(code, r))

\* C3 as stated: a token starts at every non-whitespace character that
\* does not continue a run of word characters
StartsAsStated(code) ==
    {p \in 1..Len(code) :
        /\ CharAt(code, p) \notin Whitespace
        /\ ~(p > 1 /\ WordChar(CharAt(code, p)) /\ WordChar(CharAt(code, p - 1)))}

\* the code: a word character continues a token only when the run before
\* it already holds a letter or an underscore
StartsAmended(code) ==
    {p \in 1..Len(code) :
        /\ CharAt(code, p) \notin Whitespace
        /\ ~(p > 1 /\ WordChar(CharAt(code, p)) /\ RunHasLetterUpTo(code, p - 1))}

\* the token that starts at p reaches up to the next start or whitespace
TokenAt(code, starts, p) ==
    LET ends == {q \in p..Len(code) :
                    \A r \in (p + 1)..q :
                        r \notin starts /\ CharAt(code, r) \notin Whitespace}
    IN  SubSeq(code, p, CHOOSE q \in ends : \A q2 \in ends : q2 <= q)

RECURSIVE CutFrom(_, _, _)
CutFrom(code, starts, p) ==
    IF p > Len(code) THEN <<>>
    ELSE (IF p \in starts THEN <<TokenAt(code, starts, p)>> ELSE <<>>)
         \o CutFrom(code, starts, p + 1)

\* C3 as stated: every maximal run of letters, digits and underscores is
\* one token (runs that begin with a digit included) and every other
\* non-whitespace character is a token of its own.
C3_AsStated ==
    TokensReturned => tokens = CutFrom(ruby_code, StartsAsStated(ruby_code), 1)

\* C3 (amended): within every maximal run of letters, digits and
\* underscores each digit before the run's first letter or underscore is a
\* token of its own and the rest of the run is exactly one token; every
\* other non-whitespace character is a token of its own.
C3_TokenShape ==
    TokensReturned => tokens = CutFrom(ruby_code, StartsAmended(ruby_code), 1)

C3_Witness ==
    /\ pc = "parse"
    /\ ruby_code = "11a1"
    /\ tokens = <<"1", "1", "a1">>

(***************************************************************************)
(* Reference nesting of a token sequence.                                  *)
(***************************************************************************)
Openers(t, lo, hi) == Cardinality({k \in lo..hi : t[k] \in BlockOpeners})

Ends(t, lo, hi) == Cardinality({k \in lo..hi : t[k] = "end"})

\* every prefix has at least as many openers as 'end's, the totals are equal
WellBalanced(t) ==
    /\ \A k \in 1..Len(t) : Openers(t, 1, k) >= Ends(t, 1, k)
    /\ Openers(t, 1, Len(t)) = Ends(t, 1, Len(t))

\* the 'end' that matches the opener at lo, Len(t) + 1 when there is none
MatchingEnd(t, lo) ==
    LET closes == {m \in (lo + 1)..Len(t) : Openers(t, lo, m) = Ends(t, lo, m)}
    IN  IF closes = {} THEN Len(t) + 1
        ELSE CHOOSE m \in closes : \A m2 \in closes : m <= m2

\* the fragments and blocks of t[lo..hi], blocks holding what lies between
\* their opener and its matching 'end'
RECURSIVE RefNodes(_, _, _)
RefNodes(t, lo, hi) ==
    IF lo > hi THEN <<>>
    ELSE IF t[lo] \in BlockOpeners
    THEN LET m == MatchingEnd(t, lo)
         IN  <<[type |-> t[lo], body |-> RefNodes(t, lo + 1, m - 1)]>>
             \o RefNodes(t, m + 1, hi)
    ELSE <<code_node(t[lo])>> \o RefNodes(t, lo + 1, hi)

\* the first 'end' that has no opener before it, 0 when there is none
FirstUnmatchedEnd(t) ==
    LET bad == {k \in 1..Len(t) : Ends(t, 1, k) > Openers(t, 1, k)}
    IN  IF bad = {} THEN 0 ELSE CHOOSE k \in bad : \A k2 \in bad : k <= k2

\* the first opener that no 'end' matches, Len(t) + 1 when there is none
FirstUnclosed(t) ==
    LET open == {k \in 1..Len(t) :
                    t[k] \in BlockOpeners /\ MatchingEnd(t, k) = Len(t) + 1}
    IN  IF open = {} THEN Len(t) + 1
        ELSE CHOOSE k \in open : \A k2 \in open : k <= k2

(***************************************************************************)
(* C4                                                                      *)
(***************************************************************************)
\* C4: on a well-balanced token sequence parse_tokens does not fail and
\* returns the reference nesting: the fragments and blocks at depth 0 in
\* source order, each block holding those between its opener and its
\* matching 'end'.
C4_BalancedNesting ==
    (Tokenized /\ WellBalanced(tokens)) =>
        /\ ~ParseFailed
        /\ ParseReturned =>
              /\ ast = RefNodes(tokens, 1, Len(tokens))
              /\ stack = <<>>

C4_Witness ==
    /\ pc = "transpile"
    /\ tokens = <<"class", "Foo", "def", "bar", "end", "end">>
    /\ WellBalanced(tokens)
    /\ ast = <<[type |-> "class",
                body |-> <<code_node("Foo"),
                           [type |-> "def", body |-> <<code_node("bar")>>]>>]>>

(***************************************************************************)
(* C5                                                                      *)
(***************************************************************************)
\* C5: when the tokens end while the stack is non-empty, parse_tokens
\* returns without error and the Forest is the nesting of the tokens that
\* precede the first unclosed opener: nothing of the blocks left on the
\* stack is in it, and it is empty when the first token is such an opener.
C5_DropOnUnclosed ==
    (Tokenized /\ FirstUnmatchedEnd(tokens) = 0
               /\ FirstUnclosed(tokens) <= Len(tokens)) =>
        /\ ~ParseFailed
        /\ ParseReturned =>
              /\ stack # <<>>
              /\ stack[1].type = tokens[FirstUnclosed(tokens)]
              /\ ast = RefNodes(tokens, 1, FirstUnclosed(tokens) - 1)
              /\ FirstUnclosed(tokens) = 1 => ast = <<>>

C5_Witness ==
    /\ pc = "transpile"
    /\ tokens = <<"x", "class", "Foo", "end", "y", "def", "bar", "z">>
    /\ Len(stack) = 1
    /\ Len(ast) = 3

(***************************************************************************)
(* C6                                                                      *)
(***************************************************************************)
\* no token after the first unmatched 'end' is processed and nothing is
\* returned, rendered or written
StopsAtUnmatchedEnd ==
    LET k == FirstUnmatchedEnd(tokens)
    IN  k # 0 =>
            /\ pc \in {"parse", "error"}
            /\ i <= k
            /\ pc = "error" => (i = k /\ error = "IndexError")
            /\ csharp_code = ""
            /\ output_file = <<>>

\* the step that processes an 'end' on an empty stack fails
FailsOnEmptyPop ==
    (pc = "parse" /\ i <= Len(tokens) /\ tokens[i] = "end" /\ stack = <<>>)
        => (pc' = "error" /\ error' = "IndexError" /\ i' = i /\ ast' = ast)

\* C6: an 'end' processed while the stack is empty ends the parse in a
\* failure at that token: no later token is processed and no Forest is
\* returned to the caller.
C6_UnbalancedEnd == [](StopsAtUnmatchedEnd) /\ [][FailsOnEmptyPop]_vars

C6_Witness ==
    /\ pc = "error"
    /\ error = "IndexError"
    /\ tokens = <<"x", "end", "class", "x">>
    /\ i = 2
    /\ ast = <<code_node("x")>>

(***************************************************************************)
(* Nodes of a forest, and the lines of a rendering.                        *)
(***************************************************************************)
Range(seq) == {seq[k] : k \in 1..Len(seq)}

\* the nodes of a sequence of nodes, at any depth
RECURSIVE NodesOf(_)
NodesOf(nodes) ==
    UNION {{n} \cup (IF n.type = "code" THEN {} ELSE NodesOf(n.body)) :
           n \in Range(nodes)}

\* every node the parser has built so far
AllNodes == NodesOf(ast) \cup NodesOf(stack)

\* the nodes that lie in the body of some block
NestedNodes ==
    UNION {NodesOf(n.body) : n \in {b \in AllNodes : b.type # "code"}}

Dropped == {"else", "elsif", "do"}

Rendered == {"class", "def", "if", "while"}

\* a header or closing line of a class node
ClassLine(line) == line = "}" \/ HasPrefix(line, "public class ")

(***************************************************************************)
(* C7                                                                      *)
(***************************************************************************)
\* C7: rendering a node of kind else, elsif or do, whatever its body,
\* returns without appending anything to the output, and a Forest whose
\* top-level nodes are all of these kinds renders to the empty string.
C7_SilentDrop ==
    /\ \A n \in AllNodes :
          n.type \in Dropped =>
              transpile_node(n, csharp_code) = Ok(csharp_code)
    /\ (ParseReturned /\ \A k \in 1..Len(ast) : ast[k].type \in Dropped) =>
          /\ csharp_code = ""
          /\ pc # "error"
          /\ pc = "done" => output_file = <<"">>

C7_Witness ==
    /\ pc = "done"
    /\ tokens = <<"else", "class", "end", "end">>
    /\ ast = <<[type |-> "else", body |-> <<[type |-> "class", body |-> <<>>]>>]>>
    /\ output_file = <<"">>

(***************************************************************************)
(* C8                                                                      *)
(***************************************************************************)
\* the text emitted for the body elements of n after the first
BodyText(n) == transpile_children(Tail(n.body), Ok(""))

DefNodes == {n \in AllNodes : n.type = "def" /\ FirstValueError(n) = ""}

\* C8 as stated: every line emitted for the remaining body elements of a
\* def node is prefixed with exactly 8 spaces.
C8_AsStated ==
    \A n \in DefNodes :
        BodyText(n).err = "" =>
            \A k \in 1..Len(Lines(BodyText(n).code)) :
                LeadingSpaces(Lines(BodyText(n).code)[k]) = 8

\* C8 (amended): every line emitted for the remaining body elements of a
\* def node is prefixed with exactly 4 spaces, whatever the nesting depth
\* of the def, except the header and closing-brace lines of a class node
\* inside that body, which are not indented.
C8_DefBodyIndent ==
    \A n \in DefNodes :
        BodyText(n).err = "" =>
            \A k \in 1..Len(Lines(BodyText(n).code)) :
                LET line == Lines(BodyText(n).code)[k]
                IN  LeadingSpaces(line) = (IF ClassLine(line) THEN 0 ELSE 4)

C8_Witness ==
    /\ pc = "done"
    /\ \E n \in DefNodes \cap NestedNodes :
          /\ Len(n.body) >= 2
          /\ \E k \in 2..Len(n.body) : n.body[k].type = "if"
          /\ \E k \in 2..Len(n.body) : n.body[k].type = "code"
          /\ BodyText(n).err = ""

(***************************************************************************)
(* C9                                                                      *)
(***************************************************************************)
\* the lines a node emits itself: its header and closing line, or its line
OwnLines(n) ==
    LET ls == Lines(transpile_node(n, "").code)
    IN  IF n.type = "code" THEN {ls[1]} ELSE {ls[1], ls[Len(ls)]}

RenderableNested ==
    {n \in NestedNodes :
        n.type \in Rendered \cup {"code"} /\ transpile_node(n, "").err = ""}

\* C9 as stated: every line emitted for a node inside a block's body, of
\* kind class, def, if, while or code, begins with exactly 4 spaces.
C9_AsStated ==
    \A n \in RenderableNested :
        \A line \in OwnLines(n) : LeadingSpaces(line) = 4

\* C9 (amended): every line emitted for a node inside a block's body
\* begins with exactly 4 spaces when the node is of kind def, if, while or
\* code and with no space when it is of kind class; the text emitted for a
\* node does not depend on its nesting depth or on what was emitted before.
C9_FlatIndent ==
    /\ \A n \in RenderableNested :
          /\ \A line \in OwnLines(n) :
                LeadingSpaces(line) = (IF n.type = "class" THEN 0 ELSE 4)
          /\ transpile_node(n, csharp_code).code
                = csharp_code \o transpile_node(n, "").code
    /\ TranspileReturned =>
          \A k \in 1..Len(Lines(csharp_code)) :
              LeadingSpaces(Lines(csharp_code)[k]) \in {0, 4}

C9_Witness ==
    /\ pc = "done"
    /\ ruby_code = "class A def m while c class B x end def n y end s end end end"
    /\ Len(Lines(csharp_code)) = 13
    /\ \E n \in RenderableNested : n.type = "class"
    /\ \E n \in RenderableNested : n.type = "def" /\ n.body[1].value = "n"

(***************************************************************************)
(* C10                                                                     *)
(***************************************************************************)
HeaderOf(n) ==
    CASE n.type = "class" -> "public class " \o n.body[1].value \o " {\n"
      [] n.type = "def"   -> "    public void " \o n.body[1].value \o "() {\n"
      [] n.type = "if"    -> "    if (" \o n.body[1].value \o ") {\n"
      [] n.type = "while" -> "    while (" \o n.body[1].value \o ") {\n"

\* each body element from the second on, rendered on its own, in body order
RestText(n) ==
    Concat([k \in 1..(Len(n.body) - 1) |-> transpile_node(n.body[k + 1], "").code])

RestRenders(n) ==
    \A k \in 2..Len(n.body) : transpile_node(n.body[k], "").err = ""

\* C10: a class, def, if or while node whose body starts with a code
\* fragment renders as the header built from that fragment's value alone,
\* then every remaining body element once, in body order, then exactly one
\* closing-brace line; it renders whenever its remaining elements do.
C10_HeaderFromFirst ==
    \A n \in AllNodes :
        (n.type \in Rendered /\ FirstValueError(n) = "") =>
            /\ (transpile_node(n, "").err = "") = RestRenders(n)
            /\ RestRenders(n) =>
                  /\ transpile_node(n, "").code
                        = HeaderOf(n) \o RestText(n)
                          \o (IF n.type = "class" THEN "}\n" ELSE "    }\n")
                  /\ Len(Lines(HeaderOf(n))) = 1

C10_Witness ==
    /\ pc = "done"
    /\ ruby_code = "class A def m if c s end t end u end"
    /\ \E n \in AllNodes :
          /\ n.type = "def"
          /\ Len(n.body) = 3
          /\ RestRenders(n)
          /\ RestText(n) = "    if (c) {\n    s\n    }\n    t\n"

(***************************************************************************)
(* C11                                                                     *)
(***************************************************************************)
\* C11: over successive invocations, parse_tokens returns equal Forests
\* for equal token sequences, and the Forest of every invocation is the
\* nesting determined by its own tokens alone, whatever earlier invocations
\* (returned, left blocks unclosed, or failed) left behind: every
\* invocation starts from an empty stack, an empty forest and empty output.
C11_Determinism ==
    /\ \A r1 \in returned : \A r2 \in returned :
          r1.tokens = r2.tokens => r1.ast = r2.ast
    /\ \A r \in returned :
          r.ast = RefNodes(r.tokens, 1, FirstUnclosed(r.tokens) - 1)
    /\ (pc = "parse" /\ i = 1) => (stack = <<>> /\ ast = <<>>)
    /\ (pc = "transpile" /\ j = 1) => csharp_code = ""

C11_Witness ==
    /\ calls = 3
    /\ pc = "transpile"
    /\ tokens = <<"class", "Foo", "def", "bar", "end", "end">>
    /\ \E r \in returned : r.call = 1 /\ r.tokens = tokens
    /\ \E r \in returned : r.call = 3 /\ r.tokens = tokens
    /\ ~\E r \in returned : r.call = 2

(***************************************************************************)
(* C12                                                                     *)
(***************************************************************************)
\* the number of nodes in a sequence of nodes, at any depth
RECURSIVE NodeCount(_)
NodeCount(nodes) ==
    IF nodes = <<>> THEN 0
    ELSE 1 + (IF Head(nodes).type = "code" THEN 0 ELSE NodeCount(Head(nodes).body))
           + NodeCount(Tail(nodes))

\* the parser is about to process 'end' with a non-empty stack
AtEnd ==
    pc = "parse" /\ i <= Len(tokens) /\ tokens[i] = "end" /\ stack # <<>>

EndStepEffect ==
    LET n == Len(stack)
        top == stack[n]
    IN  /\ pc' = "parse"
        /\ i' = i + 1
        /\ Len(stack') = n - 1
        /\ \A k \in 1..(n - 2) : stack'[k] = stack[k]
        /\ IF n >= 2
           THEN /\ stack'[n - 1].type = stack[n - 1].type
                /\ stack'[n - 1].body = Append(stack[n - 1].body, top)
                /\ ast' = ast
           ELSE ast' = Append(ast, top)
        /\ NodeCount(stack') + NodeCount(ast')
              = NodeCount(stack) + NodeCount(ast)

\* C12: processing 'end' with a non-empty stack removes exactly the top
\* node and appends it once, as the last element, to the body of the new
\* top, or to the Forest when the stack has become empty; the entries
\* below, the other bodies and (in the first case) the Forest are unchanged.
C12_EndStep == [][AtEnd => EndStepEffect]_vars

C12_Witness ==
    /\ pc = "parse"
    /\ tokens = <<"class", "A", "def", "m", "if", "c", "s", "end", "t", "end",
                  "u", "end">>
    /\ i = 9
    /\ Len(stack) = 2
    /\ stack[2].body[Len(stack[2].body)].type = "if"
    /\ ast = <<>>

(***************************************************************************)
(* C13                                                                     *)
(***************************************************************************)
IsPrefix(s, t) == Len(s) <= Len(t) /\ SubSeq(t, 1, Len(s)) = s

\* the type of a block node, the value of a fragment
Label(n) == IF n.type = "code" THEN n.value ELSE n.type

\* the number of nodes in a sequence of nodes, at any depth, that carry w
RECURSIVE LabelCount(_, _)
LabelCount(nodes, w) ==
    IF nodes = <<>> THEN 0
    ELSE (IF Label(Head(nodes)) = w THEN 1 ELSE 0)
         + (IF Head(nodes).type = "code" THEN 0
            ELSE LabelCount(Head(nodes).body, w))
         + LabelCount(Tail(nodes), w)

\* the tokens processed so far that create a node
Created == {k \in 1..(i - 1) : tokens[k] # "end"}

\* every node created so far is held once: on the stack, in one body below
\* a stack entry, in the Forest, or in one body below a Forest node
HeldOnce ==
    Tokenized =>
        /\ NodeCount(stack) + NodeCount(ast) = Cardinality(Created)
        /\ \A k \in Created :
              LabelCount(stack, tokens[k]) + LabelCount(ast, tokens[k])
                 = Cardinality({m \in Created : tokens[m] = tokens[k]})
        /\ \A k \in 1..Len(stack) : stack[k].type \in BlockOpeners

\* what is attached stays where it is: the Forest and every body below an
\* entry that stays on the stack only grow at their end
AttachedStays ==
    pc = "parse" =>
        /\ IsPrefix(ast, ast')
        /\ \A k \in 1..Len(stack) :
              k <= Len(stack') => IsPrefix(stack[k].body, stack'[k].body)

\* C13: after every step of parse_tokens each node created so far is in
\* exactly one place (the stack, one body, or the Forest) exactly once, and
\* a node once attached is never moved or attached again.
C13_SingleOwnership == [](HeldOnce) /\ [][AttachedStays]_vars

C13_Witness ==
    /\ pc = "parse"
    /\ ruby_code = "class A def m while c class B x end def n y end s end end end"
    /\ i = 15
    /\ Len(stack) = 3
    /\ Len(stack[3].body) = 3
    /\ NodeCount(stack) = Cardinality(Created)

(***************************************************************************)
(* C14                                                                     *)
(***************************************************************************)
\* the stack entries that are on the stack before and after the step
Kept == {k \in 1..Len(stack) : k <= Len(stack')}

\* one step of the parser changes at most the body of the entry that is
\* the stack top after it, by one element appended at its end; a pushed
\* entry starts with an empty body; a popped node is attached as it was;
\* the Forest keeps its elements
BodyFrame ==
    /\ (pc = "parse" /\ i <= Len(tokens)) =>
          /\ \A k \in Kept : stack'[k].type = stack[k].type
          /\ \A k \in Kept :
                stack'[k].body # stack[k].body =>
                    /\ k = Len(stack')
                    /\ Len(stack'[k].body) = Len(stack[k].body) + 1
                    /\ IsPrefix(stack[k].body, stack'[k].body)
          /\ Len(stack') > Len(stack) =>
                (Len(stack') = Len(stack) + 1 /\ stack'[Len(stack')].body = <<>>)
          /\ Len(stack') < Len(stack) =>
                /\ Len(stack') = Len(stack) - 1
                /\ IF stack' = <<>>
                   THEN ast'[Len(ast')] = stack[Len(stack)]
                   ELSE LET body == stack'[Len(stack')].body
                        IN  body[Len(body)] = stack[Len(stack)]
    /\ pc \in {"parse", "transpile", "write"} => IsPrefix(ast, ast')
    /\ pc \in {"transpile", "write"} => stack' = stack

\* C14: a step of parse_tokens changes no body list but that of the stack
\* top, and that one only by appending one element; a block node that has
\* been popped, and everything beneath it, stays as it was in every later
\* state.
C14_ImmutableOnceClosed == [][BodyFrame]_vars

C14_Witness ==
    /\ pc = "parse"
    /\ tokens = <<"class", "A", "def", "m", "if", "c", "s", "end", "t", "end",
                  "u", "end">>
    /\ i = 10
    /\ Len(stack) = 2
    /\ stack[2].body = <<code_node("m"),
                         [type |-> "if", body |-> <<code_node("c"), code_node("s")>>],
                         code_node("t")>>

(***************************************************************************)
(* C15                                                                     *)
(***************************************************************************)
\* transpile_to_csharp as a function of the forest: the accumulator starts
\* empty and the top-level nodes are rendered in order
transpile_to_csharp(forest) == transpile_children(forest, Ok(""))

\* render(A followed by B) is render(A) followed by render(B)
Splits(A, B) ==
    (transpile_to_csharp(A).err = "" /\ transpile_to_csharp(B).err = "") =>
        transpile_to_csharp(A \o B)
           = Ok(transpile_to_csharp(A).code \o transpile_to_csharp(B).code)

\* C15: the top-level nodes are rendered in Forest order and the output of
\* each is contiguous: for Forests A and B that render without failure
\* render(A followed by B) = render(A) followed by render(B), the empty
\* Forest renders to the empty string, and the text accumulated before the
\* j-th top-level node is the rendering of the nodes before it.
C15_TraversalOrder ==
    /\ transpile_to_csharp(<<>>) = Ok("")
    /\ ParseReturned =>
          /\ \A k \in 0..Len(ast) :
                Splits(SubSeq(ast, 1, k), SubSeq(ast, k + 1, Len(ast)))
          /\ Splits(ast, ast)
          /\ Splits(ast, stack)
          /\ Splits(stack, ast)
    /\ pc = "transpile" =>
          csharp_code = transpile_to_csharp(SubSeq(ast, 1, j - 1)).code
    /\ TranspileReturned => Ok(csharp_code) = transpile_to_csharp(ast)

C15_Witness ==
    /\ pc = "done"
    /\ tokens = <<"x", "class", "Foo", "end", "y", "def", "bar", "z">>
    /\ Len(ast) = 3
    /\ transpile_to_csharp(SubSeq(ast, 1, 1)).code = "    x\n"
    /\ transpile_to_csharp(SubSeq(ast, 2, 3)).code = "public class Foo {\n}\n    y\n"
    /\ csharp_code = "    x\npublic class Foo {\n}\n    y\n"

(***************************************************************************)
(* C16                                                                     *)
(***************************************************************************)
\* after the first i - 1 tokens the stack holds one entry per opener that
\* no 'end' has closed yet; a failure is at the first unmatched 'end'
DepthIsBalance ==
    Tokenized =>
        /\ Len(stack) = Openers(tokens, 1, i - 1) - Ends(tokens, 1, i - 1)
        /\ Openers(tokens, 1, i - 1) >= Ends(tokens, 1, i - 1)
        /\ ParseFailed => i = FirstUnmatchedEnd(tokens)
        /\ FirstUnmatchedEnd(tokens) = 0 => ~ParseFailed

\* the parser fails at the first unmatched 'end', steps over every other
\* token, and returns after the last one
FailsOnlyThere ==
    pc = "parse" =>
        IF i > Len(tokens) THEN pc' = "transpile"
        ELSE IF i = FirstUnmatchedEnd(tokens)
        THEN pc' = "error" /\ i' = i /\ stack' = stack
        ELSE pc' = "parse" /\ i' = i + 1

\* C16: after any prefix processed without failure the stack depth is the
\* number of openers minus the number of 'end's of the prefix, never
\* negative; the parse fails exactly at the first token where the 'end's
\* would outnumber the openers, and otherwise processes every token and
\* returns.
C16_StackDepth == [](DepthIsBalance) /\ [][FailsOnlyThere]_vars

C16_Witness ==
    /\ pc = "error"
    /\ tokens = <<"if", "end", "end", "x">>
    /\ i = 3
    /\ stack = <<>>
    /\ Len(ast) = 1
    /\ FirstUnmatchedEnd(tokens) = 3

(***************************************************************************)
(* C17                                                                     *)
(***************************************************************************)
\* pre-order flattening: a block is its kind, its body, then 'end'; a
\* fragment is its value
RECURSIVE Flatten(_)
Flatten(nodes) ==
    IF nodes = <<>> THEN <<>>
    ELSE (IF Head(nodes).type = "code" THEN <<Head(nodes).value>>
          ELSE <<Head(nodes).type>> \o Flatten(Head(nodes).body) \o <<"end">>)
         \o Flatten(Tail(nodes))

\* C17: for a well-balanced token sequence the Forest returned by
\* parse_tokens flattens back to the token sequence, and it has as many
\* nodes as there are tokens other than 'end'.
C17_RoundTrip ==
    (Tokenized /\ WellBalanced(tokens) /\ ParseReturned) =>
        /\ Flatten(ast) = tokens
        /\ NodeCount(ast) = Cardinality({k \in 1..Len(tokens) : tokens[k] # "end"})

C17_Witness ==
    /\ pc = "transpile"
    /\ ruby_code = "class A def m while c class B x end def n y end s end end end"
    /\ WellBalanced(tokens)
    /\ Len(tokens) = 18
    /\ Len(ast) = 1
    /\ NodeCount(ast) = 13
    /\ Flatten(ast) = tokens

(***************************************************************************)
(* C18                                                                     *)
(***************************************************************************)
\* every class, def, if or while node that does not lie beneath an else,
\* elsif or do node has a non-empty body whose first element is a fragment
RECURSIVE Renderable(_)
Renderable(nodes) ==
    \A k \in 1..Len(nodes) :
        nodes[k].type \in Rendered =>
            /\ nodes[k].body # <<>>
            /\ nodes[k].body[1].type = "code"
            /\ Renderable(nodes[k].body)

\* rendering returns a string exactly for the renderable forests; a failed
\* rendering returns and writes nothing
ReturnsIffRenderable ==
    /\ \A n \in AllNodes :
          (transpile_to_csharp(<<n>>).err = "") = Renderable(<<n>>)
    /\ ParseReturned =>
          /\ (transpile_to_csharp(ast).err = "") = Renderable(ast)
          /\ Renderable(ast) => pc # "error"
          /\ ~Renderable(ast) =>
                (pc \in {"transpile", "error"} /\ output_file = <<>>)
          /\ pc = "error" => error \in {"IndexError", "KeyError"}

\* the step that reaches an offending node fails; after the last top-level
\* node the call returns
FailsAtOffender ==
    pc = "transpile" =>
        IF j > Len(ast) THEN pc' = "write" /\ csharp_code' = csharp_code
        ELSE IF Renderable(<<ast[j]>>) THEN pc' = "transpile" /\ j' = j + 1
        ELSE pc' = "error" /\ j' = j

\* C18: transpile_to_csharp returns a string exactly when every class,
\* def, if or while node that is reached has a non-empty body whose first
\* element is a code fragment; otherwise rendering ends in a failure and
\* no string is returned, not even the text accumulated so far.
C18_RenderFailure == [](ReturnsIffRenderable) /\ [][FailsAtOffender]_vars

C18_Witness ==
    /\ pc = "error"
    /\ ruby_code = "class A if end end"
    /\ error = "IndexError"
    /\ ~Renderable(ast)
    /\ csharp_code = "public class A {\n    if ("
    /\ output_file = <<>>

====
